---- MODULE Spec2Model ----
(***************************************************************************)
(* The streaming total/offset pipeline of                                  *)
(* async_fetch_and_save_v6_original.py (and its twin                       *)
(* async_fetch_and_save_v7_with_parsing.py): main() opens the CSV file,    *)
(* fetches page 0, writes it, computes the offsets of the remaining pages, *)
(* fans the requests out and writes every page as it completes.            *)
(*                                                                         *)
(* A page is named by its index: page 1 is the initial request (offset 0), *)
(* page k+1 is the request for urls_to_fetch[k].                           *)
(***************************************************************************)
EXTENDS Integers, Sequences, FiniteSets, Bags, TLC

\* ---------------------------------------------------------------- bounds
MaxPageSize == 2
MaxTotal == 5
MaxItems == 2
MaxPages == 3
MaxUrls == 3
MaxLinkItems == 1
MaxRequests == 3
MaxParses == 2
MaxApiUrls == 3
MaxBatchItems == 1

VARIABLES
    page_size,       \* max_results_per_page
    has_total,       \* the initial response carries total_key
    srv_total,       \* the value it carries under total_key (0 when it has none)
    resp,            \* resp[k]: what happens to the request for page k
    pc,              \* where main() is
    status,          \* "running", or the way main() ended
    interrupted,     \* KeyboardInterrupt / cancellation delivered to main()
    file_open,       \* the `with open(...)` scope is active
    file_content,    \* lines of the output file
    header_written,
    total_items,
    urls_to_fetch,   \* offsets of the remaining pages, in submission order
    requested,       \* offsets of the requests issued so far, in order
    in_flight,       \* pages requested and not yet completed
    completed,       \* pages completed and not yet consumed, in completion order
    \* async_fetch_and_save_v4_pagination.py: link-following chains
    link_pages,      \* link_pages[u]: what the request for URL u meets
    next_url,        \* next_url[c]: the URL chain c fetches next (0: none)
    all_items,       \* all_items[c]: the accumulator of chain c
    chain_pc,        \* where fetch_all_pages of chain c is
    chain_requests,  \* chain_requests[c]: the URLs chain c requested, in order
    link_main,       \* where main() of the link-following script is
    results_by_url,  \* what asyncio.gather returned
    link_files,      \* link_files[i]: lines of the CSV file of result i
    \* async_fetch_and_save_v7_with_parsing.py: get_item_data
    raw_items,       \* the raw items of a page
    parsed,          \* the calls of get_item_data so far: item and result
    \* async_fetch_and_save_v3_streaming.py: main()
    api_resp,        \* api_resp[u]: what the request for api_urls[u] meets
    v3_pc,           \* where main() of the per-URL script is
    v3_status,       \* "running", or the way that main() ended
    v3_file,         \* lines of api_data_streamed.csv
    v3_header_written,
    v3_in_flight,    \* the tasks not yet completed
    v3_completed,    \* the tasks completed and not yet awaited, in that order
    \* async_fetch_and_save_v5_total_offset.py: fetch_all_with_total_offset
    max_results_per_page,
    batch_resp,      \* batch_resp[k]: what the request for page k meets
    batch_pc,        \* where fetch_all_with_total_offset is
    batch_requested, \* the offsets requested so far, in order
    batch_in_flight, \* the tasks of the gather not yet completed
    batch_items,     \* all_items
    batch_result     \* how the call ended, "none" while it runs

streamVars == <<page_size, has_total, srv_total, resp, pc, status, interrupted,
                file_open, file_content, header_written, total_items,
                urls_to_fetch, requested, in_flight, completed>>

linkVars == <<link_pages, next_url, all_items, chain_pc, chain_requests,
              link_main, results_by_url, link_files>>

parseVars == <<raw_items, parsed>>

v3Vars == <<api_resp, v3_pc, v3_status, v3_file, v3_header_written,
            v3_in_flight, v3_completed>>

batchVars == <<max_results_per_page, batch_resp, batch_pc, batch_requested,
               batch_in_flight, batch_items, batch_result>>

vars == <<streamVars, linkVars, parseVars, v3Vars, batchVars>>

\* ------------------------------------------------------- lines of the file
\* Stale is what a previous run left in the file; Row(page, j) is the line
\* of the j-th item of a page.
Header == [kind |-> "header", page |-> 0, item |-> 0]
Stale == [kind |-> "stale", page |-> 0, item |-> 0]
Row(page, j) == [kind |-> "row", page |-> page, item |-> j]
Rows(page, n) == [j \in 1..n |-> Row(page, j)]

\* ------------------------------------------------------------ range(...)
\* range(start, stop, step) as the for loop walks it; step = 0 raises
\* ValueError and is handled by the caller.
\* range() taken to include its stop value.
RECURSIVE RangeInclusive(_, _, _)
RangeInclusive(start, stop, step) ==
    IF (step > 0 /\ start <= stop) \/ (step < 0 /\ start >= stop)
    THEN <<start>> \o RangeInclusive(start + step, stop, step)
    ELSE <<>>

RECURSIVE Range(_, _, _)
Range(start, stop, step) ==
    IF (step > 0 /\ start < stop) \/ (step < 0 /\ start > stop)
    THEN <<start>> \o Range(start + step, stop, step)
    ELSE <<>>

\* ------------------------------------------------------------ fetch_json
\* What one request can meet on the wire.
\* "json_object" is a decoded JSON object that carries total_key and `items`
\* items under items_key; "wrong_shape" is a decoded, non-empty JSON value
\* that is no object (a string, an array).
Outcomes ==
    [net : {"transport_error", "bad_status", "timeout", "invalid_json",
            "wrong_shape"}, items : {0}]
    \cup [net : {"json_object"}, items : 0..MaxItems]

\* fetch_json: session.get / raise_for_status raise aiohttp.ClientError,
\* which is caught and turned into None; a timeout (asyncio.TimeoutError)
\* and an undecodable body (json.JSONDecodeError) are no ClientError and
\* leave fetch_json as exceptions; any decoded JSON value is returned as is.
fetch_json(outcome) ==
    CASE outcome.net \in {"transport_error", "bad_status"} ->
            [raised |-> FALSE, kind |-> "none", items |-> 0]
      [] outcome.net \in {"timeout", "invalid_json"} ->
            [raised |-> TRUE, kind |-> outcome.net, items |-> 0]
      [] outcome.net = "wrong_shape" ->
            [raised |-> FALSE, kind |-> "not_a_dict", items |-> 0]
      [] OTHER ->
            [raised |-> FALSE, kind |-> "dict", items |-> outcome.items]

\* ---------------------------------------------------------------- Init
PageSizes == (-1)..MaxPageSize

\* The pages a run with page size p and reported total t can ask for.
NumPages(p, t) == IF p = 0 THEN 1 ELSE 1 + Len(Range(p, t, p))

\* initial_response.get(total_key, 0).
ReportedTotal(present, total) == IF present THEN total ELSE 0

\* The link-following script is not running.
LinkIdle ==
    /\ link_pages = <<>>
    /\ next_url = <<>>
    /\ all_items = <<>>
    /\ chain_pc = <<>>
    /\ chain_requests = <<>>
    /\ link_main = "idle"
    /\ results_by_url = <<>>
    /\ link_files = <<>>

\* No page is being parsed.
ParseIdle ==
    /\ raw_items = <<>>
    /\ parsed = <<>>

\* The per-URL streaming script is not running.
V3Idle ==
    /\ api_resp = <<>>
    /\ v3_pc = "idle"
    /\ v3_status = "idle"
    /\ v3_file = <<>>
    /\ v3_header_written = FALSE
    /\ v3_in_flight = {}
    /\ v3_completed = <<>>

\* The batch total/offset script is not running.
BatchIdle ==
    /\ max_results_per_page = 1
    /\ batch_resp = <<>>
    /\ batch_pc = "idle"
    /\ batch_requested = <<>>
    /\ batch_in_flight = {}
    /\ batch_items = <<>>
    /\ batch_result = "none"

Init ==
    /\ LinkIdle
    /\ ParseIdle
    /\ V3Idle
    /\ BatchIdle
    /\ page_size \in PageSizes
    /\ has_total \in BOOLEAN
    /\ srv_total \in IF has_total THEN 0..MaxTotal ELSE {0}
    /\ NumPages(page_size, srv_total) <= MaxPages
    /\ resp \in [1..NumPages(page_size, srv_total) -> Outcomes]
    /\ pc = "open"
    /\ status = "running"
    /\ interrupted = FALSE
    /\ file_open = FALSE
    /\ file_content = <<Stale>>
    /\ header_written = FALSE
    /\ total_items = 0
    /\ urls_to_fetch = <<>>
    /\ requested = <<>>
    /\ in_flight = {}
    /\ completed = <<>>

\* ------------------------------------------------------------ exit paths
\* main() left by a return that skips the close of the file.
ExitLeavingFileOpen(how) ==
    /\ pc' = "exited"
    /\ status' = how
    /\ file_open' = IF how = "initial_failed" THEN file_open ELSE FALSE
    /\ in_flight' = {}

\* Leaving main(): the with blocks close the file and the session, and
\* asyncio.run cancels the tasks that are still pending.
Exit(how) ==
    /\ pc' = "exited"
    /\ status' = how
    /\ file_open' = FALSE
    /\ in_flight' = {}

\* The process exit status: an exception that leaves asyncio.run(main())
\* other than KeyboardInterrupt ends the process with a traceback.
ExitCode(how) == IF how = "crashed" THEN 1 ELSE 0

\* An exception that escaped fetch_json and is re-raised by the await in
\* main(): json.JSONDecodeError is a ValueError and leaves main();
\* asyncio.TimeoutError is an OSError on the interpreters where it is the
\* builtin TimeoutError, and `except IOError` then catches it.
EscapeExits(kind) ==
    IF kind = "timeout" THEN {"crashed", "timeout_as_io_error"}
    ELSE {"crashed"}

\* ---------------------------------------------------------------- actions
\* The file opened for appending: what it held stays.
OpenFileAppending ==
    /\ pc = "open"
    /\ ~interrupted
    /\ \/ /\ pc' = "fetch_initial"
          /\ file_open' = TRUE
          /\ UNCHANGED <<file_content, status, in_flight>>
       \/ /\ Exit("io_error")
          /\ UNCHANGED file_content
    /\ UNCHANGED <<linkVars, parseVars, v3Vars, batchVars,
                   page_size, has_total, srv_total, resp, interrupted,
                   header_written, total_items, urls_to_fetch, requested,
                   completed>>

\* with open(output_csv_file, mode='w', ...) as file
OpenFile ==
    /\ pc = "open"
    /\ ~interrupted
    /\ \/ /\ pc' = "fetch_initial"
          /\ file_open' = TRUE
          /\ file_content' = <<>>
          /\ UNCHANGED <<status, in_flight>>
       \/ /\ Exit("io_error")
          /\ UNCHANGED file_content
    /\ UNCHANGED <<linkVars, parseVars, v3Vars, batchVars,
                   page_size, has_total, srv_total, resp, interrupted, header_written,
                   total_items, urls_to_fetch, requested, completed>>

\* initial_response = await fetch_json(session, initial_url)
FetchInitial ==
    /\ pc = "fetch_initial"
    /\ ~interrupted
    /\ requested' = Append(requested, 0)
    /\ in_flight' = {1}
    /\ pc' = "await_initial"
    /\ UNCHANGED <<linkVars, parseVars, v3Vars, batchVars,
                   page_size, has_total, srv_total, resp, status, interrupted, file_open,
                   file_content, header_written, total_items, urls_to_fetch,
                   completed>>

\* The fetch task writes the rows of its page itself when it ends.
CompleteWritingRows(k) ==
    /\ k \in in_flight
    /\ in_flight' = in_flight \ {k}
    /\ completed' = Append(completed, k)
    /\ file_content' = file_content \o Rows(k, resp[k].items)
    /\ UNCHANGED <<linkVars, parseVars, v3Vars, batchVars,
                   page_size, has_total, srv_total, resp, pc, status,
                   interrupted, file_open, header_written, total_items,
                   urls_to_fetch, requested>>

\* A request in flight ends: fetch_json returns or raises.
Complete(k) ==
    /\ k \in in_flight
    /\ in_flight' = in_flight \ {k}
    /\ completed' = Append(completed, k)
    /\ UNCHANGED <<linkVars, parseVars, v3Vars, batchVars,
                   page_size, has_total, srv_total, resp, pc, status, interrupted,
                   file_open, file_content, header_written, total_items,
                   urls_to_fetch, requested>>

\* ------------------------------------------------------- CSV writer calls
\* The first page written without writer.writeheader().
WriteFirstPageNoHeader(content, n) ==
    IF n = 0
    THEN {[content |-> content, header_written |-> FALSE, failed |-> FALSE]}
    ELSE {[content |-> content \o Rows(1, n),
           header_written |-> TRUE, failed |-> FALSE]}

\* writer.writeheader(); header_written = True; writer.writerows(items) for
\* the first page: every way the three statements can end.  A write that
\* raises IOError leaves what was written before it in the file.
WriteFirstPage(content, n) ==
    IF n = 0
    THEN {[content |-> content, header_written |-> FALSE, failed |-> FALSE]}
    ELSE {[content |-> content, header_written |-> FALSE, failed |-> TRUE]}
         \cup {[content |-> content \o <<Header>> \o SubSeq(Rows(1, n), 1, j),
                header_written |-> TRUE, failed |-> TRUE] : j \in 0..n - 1}
         \cup {[content |-> content \o <<Header>> \o Rows(1, n),
                header_written |-> TRUE, failed |-> FALSE]}

\* A failed write of a later page that loses what the file held.
WritePageLosingContent(content, page, n) ==
    IF n = 0
    THEN {[content |-> content, failed |-> FALSE]}
    ELSE {[content |-> <<>>, failed |-> TRUE],
          [content |-> content \o Rows(page, n), failed |-> FALSE]}

\* if items_on_page: writer.writerows(items_on_page) for a later page.
WritePage(content, page, n) ==
    IF n = 0
    THEN {[content |-> content, failed |-> FALSE]}
    ELSE {[content |-> content \o SubSeq(Rows(page, n), 1, j),
           failed |-> TRUE] : j \in 0..n - 1}
         \cup {[content |-> content \o Rows(page, n), failed |-> FALSE]}

\* main() resumes with the initial response: the abort on a failed first
\* page, the first page written, the remaining offsets computed, and the
\* return when there are none.
HandleInitial ==
    /\ pc = "await_initial"
    /\ ~interrupted
    /\ completed = <<1>>
    /\ completed' = <<>>
    /\ LET r == fetch_json(resp[1]) IN
       \/ /\ r.raised
          /\ \E how \in EscapeExits(r.kind) : Exit(how)
          /\ UNCHANGED <<file_content, header_written, total_items,
                         urls_to_fetch>>
       \/ /\ ~r.raised
          /\ r.kind = "none"
          /\ Exit("initial_failed")
          /\ UNCHANGED <<file_content, header_written, total_items,
                         urls_to_fetch>>
       \/ /\ ~r.raised
          /\ r.kind = "not_a_dict"
          /\ Exit("crashed")
          /\ UNCHANGED <<file_content, header_written, total_items,
                         urls_to_fetch>>
       \/ /\ ~r.raised
          /\ r.kind = "dict"
          /\ total_items' = ReportedTotal(has_total, srv_total)
          /\ \E w \in WriteFirstPage(file_content, r.items) :
                /\ file_content' = w.content
                /\ header_written' = w.header_written
                /\ IF w.failed
                   THEN Exit("io_error") /\ UNCHANGED urls_to_fetch
                   ELSE IF page_size = 0
                   THEN Exit("crashed") /\ UNCHANGED urls_to_fetch
                   ELSE LET urls == Range(page_size,
                                          ReportedTotal(has_total, srv_total),
                                          page_size) IN
                        /\ urls_to_fetch' = urls
                        /\ IF urls = <<>>
                           THEN Exit("all_on_first_page")
                           ELSE /\ pc' = "fanout"
                                /\ UNCHANGED <<status, file_open, in_flight>>
    /\ UNCHANGED <<linkVars, parseVars, v3Vars, batchVars,
                   page_size, has_total, srv_total, resp, interrupted, requested>>

\* The tasks keep starting after an interrupt was delivered.
StartTaskIgnoringInterrupt ==
    /\ pc = "fanout"
    /\ LET k == Len(requested) IN
       /\ requested' = Append(requested, urls_to_fetch[k])
       /\ in_flight' = in_flight \cup {k + 1}
       /\ pc' = IF k = Len(urls_to_fetch) THEN "stream" ELSE "fanout"
    /\ UNCHANGED <<linkVars, parseVars, v3Vars, batchVars,
                   page_size, has_total, srv_total, resp, status, interrupted, file_open,
                   file_content, header_written, total_items, urls_to_fetch,
                   completed>>

\* The streaming loop entered after the first task was started, the other
\* tasks left for later.
StartTaskOneAtATime ==
    /\ pc = "fanout"
    /\ ~interrupted
    /\ LET k == Len(requested) IN
       /\ requested' = Append(requested, urls_to_fetch[k])
       /\ in_flight' = in_flight \cup {k + 1}
       /\ pc' = "stream"
    /\ UNCHANGED <<linkVars, parseVars, v3Vars, batchVars,
                   page_size, has_total, srv_total, resp, status, interrupted,
                   file_open, file_content, header_written, total_items,
                   urls_to_fetch, completed>>

\* tasks = [fetch_json(session, url) for url in urls_to_fetch], wrapped and
\* scheduled by asyncio.as_completed: the tasks start one after the other,
\* each sending its request, before any of them can be consumed.
StartTask ==
    /\ pc = "fanout"
    /\ ~interrupted
    /\ LET k == Len(requested) IN
       /\ requested' = Append(requested, urls_to_fetch[k])
       /\ in_flight' = in_flight \cup {k + 1}
       /\ pc' = IF k = Len(urls_to_fetch) THEN "stream" ELSE "fanout"
    /\ UNCHANGED <<linkVars, parseVars, v3Vars, batchVars,
                   page_size, has_total, srv_total, resp, status, interrupted, file_open,
                   file_content, header_written, total_items, urls_to_fetch,
                   completed>>

\* The streaming loop taking the completed pages in submission order: the
\* lowest page that has completed, not the first that completed.
ConsumeInSubmissionOrder ==
    /\ pc = "stream"
    /\ ~interrupted
    /\ completed # <<>>
    /\ LET k == CHOOSE m \in {completed[i] : i \in DOMAIN completed} :
                    \A i \in DOMAIN completed : m <= completed[i]
           r == fetch_json(resp[k])
           rest == SelectSeq(completed, LAMBDA m : m # k)
           last == in_flight = {} /\ rest = <<>>
       IN
       /\ completed' = rest
       /\ \/ /\ r.raised
             /\ \E how \in EscapeExits(r.kind) : Exit(how)
             /\ UNCHANGED file_content
          \/ /\ ~r.raised
             /\ r.kind = "not_a_dict"
             /\ Exit("crashed")
             /\ UNCHANGED file_content
          \/ /\ ~r.raised
             /\ r.kind \in {"none", "dict"}
             /\ \E w \in WritePage(file_content, k, r.items) :
                   /\ file_content' = w.content
                   /\ IF w.failed THEN Exit("io_error")
                      ELSE IF last THEN Exit("finished")
                      ELSE UNCHANGED <<pc, status, file_open, in_flight>>
    /\ UNCHANGED <<linkVars, parseVars, v3Vars, batchVars,
                   page_size, has_total, srv_total, resp, interrupted,
                   header_written, total_items, urls_to_fetch, requested>>

\* One turn of `for future in asyncio.as_completed(tasks)`: the next page
\* in completion order is awaited and, when it has items, written; after
\* the last one main() leaves the with blocks and reports.
ConsumeCompleted ==
    /\ pc = "stream"
    /\ ~interrupted
    /\ completed # <<>>
    /\ completed' = Tail(completed)
    /\ LET k == Head(completed)
           r == fetch_json(resp[k])
           last == in_flight = {} /\ Tail(completed) = <<>>
       IN
       \/ /\ r.raised
          /\ \E how \in EscapeExits(r.kind) : Exit(how)
          /\ UNCHANGED file_content
       \/ /\ ~r.raised
          /\ r.kind = "not_a_dict"
          /\ Exit("crashed")
          /\ UNCHANGED file_content
       \/ /\ ~r.raised
          /\ r.kind \in {"none", "dict"}
          /\ \E w \in WritePage(file_content, k, r.items) :
                /\ file_content' = w.content
                /\ IF w.failed THEN Exit("io_error")
                   ELSE IF last THEN Exit("finished")
                   ELSE UNCHANGED <<pc, status, file_open, in_flight>>
    /\ UNCHANGED <<linkVars, parseVars, v3Vars, batchVars,
                   page_size, has_total, srv_total, resp, interrupted, header_written,
                   total_items, urls_to_fetch, requested>>

\* KeyboardInterrupt (or the cancellation asyncio.run makes of it) reaches
\* main() while it runs.
Interrupt ==
    /\ status = "running"
    /\ ~interrupted
    /\ interrupted' = TRUE
    /\ UNCHANGED <<linkVars, parseVars, v3Vars, batchVars,
                   page_size, has_total, srv_total, resp, pc, status, file_open,
                   file_content, header_written, total_items, urls_to_fetch,
                   requested, in_flight, completed>>

\* The exception unwinds main(): the with blocks close the file, the
\* pending tasks are cancelled and __main__ catches KeyboardInterrupt.
Unwind ==
    /\ status = "running"
    /\ interrupted
    /\ Exit("interrupted")
    /\ UNCHANGED <<linkVars, parseVars, v3Vars, batchVars,
                   page_size, has_total, srv_total, resp, interrupted, file_content,
                   header_written, total_items, urls_to_fetch, requested,
                   completed>>

MainStep ==
    \/ OpenFile
    \/ FetchInitial
    \/ HandleInitial
    \/ StartTask
    \/ ConsumeCompleted

Next ==
    \/ MainStep
    \/ \E k \in 1..MaxPages : Complete(k)
    \/ Interrupt
    \/ Unwind

Spec == Init /\ [][Next]_vars

\* Every request that was sent ends, main() is scheduled whenever it can
\* run, and a delivered interrupt unwinds.
FairSpec ==
    /\ Spec
    /\ WF_vars(MainStep)
    /\ \A k \in 1..MaxPages : WF_vars(Complete(k))
    /\ WF_vars(Unwind)

\* ================================================================
\* async_fetch_and_save_v4_pagination.py: fetch_all_pages and main()
\* ================================================================
\* initial_api_urls: chain c starts at URL c.
NumChains == 2
Chains == 1..NumChains
Urls == 1..MaxUrls

\* What the request for a URL meets: as for the offset pages, and a JSON
\* object also carries a 'next' reference (0: none).
LinkResponses ==
    [net : {"transport_error", "bad_status", "timeout", "invalid_json",
            "wrong_shape"}, items : {0}, next : {0}]
    \cup [net : {"json_object"}, items : 0..MaxLinkItems, next : 0..MaxUrls]

\* The streaming script is not running.
StreamIdle ==
    /\ page_size = 1
    /\ has_total = FALSE
    /\ srv_total = 0
    /\ resp = <<>>
    /\ pc = "idle"
    /\ status = "idle"
    /\ interrupted = FALSE
    /\ file_open = FALSE
    /\ file_content = <<>>
    /\ header_written = FALSE
    /\ total_items = 0
    /\ urls_to_fetch = <<>>
    /\ requested = <<>>
    /\ in_flight = {}
    /\ completed = <<>>

LinkInit ==
    /\ StreamIdle
    /\ ParseIdle
    /\ V3Idle
    /\ BatchIdle
    /\ link_pages \in [Urls -> LinkResponses]
    /\ next_url = [c \in Chains |-> c]
    /\ all_items = [c \in Chains |-> <<>>]
    /\ chain_pc = [c \in Chains |-> "loop"]
    /\ chain_requests = [c \in Chains |-> <<>>]
    /\ link_main = "gather"
    /\ results_by_url = <<>>
    /\ link_files = [c \in Chains |-> <<>>]

\* while next_url: response_data = await fetch_json(session, next_url)
ChainRequest(c) ==
    /\ link_main = "gather"
    /\ chain_pc[c] = "loop"
    /\ next_url[c] # 0
    /\ Len(chain_requests[c]) < MaxRequests
    /\ chain_requests' =
          [chain_requests EXCEPT ![c] = Append(@, next_url[c])]
    /\ chain_pc' = [chain_pc EXCEPT ![c] = "waiting"]
    /\ UNCHANGED <<parseVars, v3Vars, batchVars, streamVars,
                   link_pages, next_url, all_items, link_main,
                   results_by_url, link_files>>

\* The rest of the loop body: break on a failed page, extend all_items,
\* take the 'next' reference; the loop ends, and fetch_all_pages returns,
\* when there is none.
ChainHandle(c) ==
    /\ link_main = "gather"
    /\ chain_pc[c] = "waiting"
    /\ LET page == link_pages[next_url[c]]
           r == fetch_json(page)
       IN
       \/ /\ r.raised \/ r.kind = "not_a_dict"
          /\ chain_pc' = [chain_pc EXCEPT ![c] = "raised"]
          /\ UNCHANGED <<next_url, all_items>>
       \/ /\ ~r.raised
          /\ r.kind = "none"
          /\ chain_pc' = [chain_pc EXCEPT ![c] = "returned"]
          /\ UNCHANGED <<next_url, all_items>>
       \/ /\ ~r.raised
          /\ r.kind = "dict"
          /\ all_items' =
                [all_items EXCEPT ![c] = @ \o Rows(next_url[c], r.items)]
          /\ next_url' = [next_url EXCEPT ![c] = page.next]
          /\ chain_pc' =
                [chain_pc EXCEPT ![c] =
                    IF page.next = 0 THEN "returned" ELSE "loop"]
    /\ UNCHANGED <<parseVars, v3Vars, batchVars, streamVars,
                   link_pages, chain_requests, link_main,
                   results_by_url, link_files>>

\* results_by_url = await asyncio.gather(*tasks): the lists the chains
\* returned, in the order of initial_api_urls.
GatherReturns ==
    /\ link_main = "gather"
    /\ \A c \in Chains : chain_pc[c] = "returned"
    /\ results_by_url' = [c \in Chains |-> all_items[c]]
    /\ link_main' = "write"
    /\ UNCHANGED <<parseVars, v3Vars, batchVars, streamVars,
                   link_pages, next_url, all_items, chain_pc,
                   chain_requests, link_files>>

\* asyncio.gather re-raises the first exception of a chain: main() is left,
\* the session is closed and asyncio.run cancels the chains still running.
GatherRaises ==
    /\ link_main = "gather"
    /\ \E c \in Chains : chain_pc[c] = "raised"
    /\ link_main' = "crashed"
    /\ chain_pc' =
          [c \in Chains |->
              IF chain_pc[c] \in {"loop", "waiting"} THEN "cancelled"
              ELSE chain_pc[c]]
    /\ UNCHANGED <<parseVars, v3Vars, batchVars, streamVars,
                   link_pages, next_url, all_items,
                   chain_requests, results_by_url, link_files>>

\* One result written to its file: skipped when empty, the header and the
\* rows otherwise, or nothing when the write raises IOError.
WrittenResult(items) ==
    IF items = <<>> THEN {<<>>}
    ELSE {<<>>, <<Header>> \o items}

\* for i, all_items in enumerate(results_by_url): ... writer.writerows
WriteResults ==
    /\ link_main = "write"
    /\ link_files' \in
          {f \in [Chains -> UNION {WrittenResult(results_by_url[c]) :
                                      c \in Chains}] :
              \A c \in Chains : f[c] \in WrittenResult(results_by_url[c])}
    /\ link_main' = "done"
    /\ UNCHANGED <<parseVars, v3Vars, batchVars, streamVars,
                   link_pages, next_url, all_items, chain_pc,
                   chain_requests, results_by_url>>

LinkNext ==
    \/ \E c \in Chains : ChainRequest(c)
    \/ \E c \in Chains : ChainHandle(c)
    \/ GatherReturns
    \/ GatherRaises
    \/ WriteResults

LinkSpec == LinkInit /\ [][LinkNext]_vars

\* Every fetch completes and every coroutine that can run is run.
LinkFairSpec ==
    /\ LinkSpec
    /\ \A c \in Chains : WF_vars(ChainRequest(c)) /\ WF_vars(ChainHandle(c))
    /\ WF_vars(GatherReturns)
    /\ WF_vars(GatherRaises)
    /\ WF_vars(WriteResults)

\* ================================================================
\* async_fetch_and_save_v7_with_parsing.py: get_item_data
\* ================================================================
\* The keys get_item_data reads, and the value a raw item has under each:
\* Absent when the item lacks the key, the value named after the key
\* otherwise.  Null is Python's None.
SourceKeys == {"id", "title", "brand", "category", "price", "rating"}
Absent == "absent"
Null == "null"
RawItems == {[k \in SourceKeys |-> IF k \in present THEN k ELSE Absent] :
                present \in SUBSET SourceKeys}

\* raw_item.get(key)
DictGet(raw_item, key) ==
    IF raw_item[key] = Absent THEN Null ELSE raw_item[key]

\* get_item_data with the brand and the category taken from each other's
\* key.
get_item_data_swapped(raw_item) ==
    [product_id |-> DictGet(raw_item, "id"),
     product_name |-> DictGet(raw_item, "title"),
     brand_name |-> DictGet(raw_item, "category"),
     category |-> DictGet(raw_item, "brand"),
     price_usd |-> DictGet(raw_item, "price"),
     customer_rating |-> DictGet(raw_item, "rating")]

get_item_data(raw_item) ==
    [product_id |-> DictGet(raw_item, "id"),
     product_name |-> DictGet(raw_item, "title"),
     brand_name |-> DictGet(raw_item, "brand"),
     category |-> DictGet(raw_item, "category"),
     price_usd |-> DictGet(raw_item, "price"),
     customer_rating |-> DictGet(raw_item, "rating")]

\* fields_to_extract of the parsing script.
fields_to_extract ==
    {"product_id", "product_name", "brand_name", "category", "price_usd",
     "customer_rating"}

\* A page of two raw items.
ItemSlots == {1, 2}

ParseInit ==
    /\ StreamIdle
    /\ LinkIdle
    /\ V3Idle
    /\ BatchIdle
    /\ raw_items \in [ItemSlots -> RawItems]
    /\ parsed = <<>>

\* One call get_item_data(item) of
\* parsed_items = [get_item_data(item) for item in items_on_page],
\* on the items in any order and on an item more than once.
ParseItem(i) ==
    /\ Cardinality({n \in DOMAIN parsed : parsed[n].slot = i}) < MaxParses
    /\ parsed' = Append(parsed, [slot |-> i,
                                 out |-> get_item_data(raw_items[i])])
    /\ UNCHANGED <<streamVars, linkVars, v3Vars, batchVars, raw_items>>

ParseNext == \E i \in ItemSlots : ParseItem(i)

ParseSpec == ParseInit /\ [][ParseNext]_vars

\* ================================================================
\* async_fetch_and_save_v3_streaming.py: main()
\* ================================================================
\* api_urls: one request per URL, each for one object.
ApiUrls == 1..MaxApiUrls

\* What the request for a URL meets: as for the offset pages; the decoded
\* JSON object is the item itself, empty (items = 0) or not (items = 1).
ApiResponses ==
    [net : {"transport_error", "bad_status", "timeout", "invalid_json",
            "wrong_shape"}, items : {0}]
    \cup [net : {"json_object"}, items : 0..1]

V3Init ==
    /\ StreamIdle
    /\ LinkIdle
    /\ ParseIdle
    /\ BatchIdle
    /\ api_resp \in [ApiUrls -> ApiResponses]
    /\ v3_pc = "open"
    /\ v3_status = "running"
    /\ v3_file = <<Stale>>
    /\ v3_header_written = FALSE
    /\ v3_in_flight = {}
    /\ v3_completed = <<>>

\* main() is left: the `with open` block closes the file, asyncio.run
\* cancels the tasks still in flight, which never complete.
V3Exit(how) ==
    /\ v3_pc' = "exited"
    /\ v3_status' = how

\* with open(output_csv_file, mode='w', ...); header_written = False
V3OpenFile ==
    /\ v3_pc = "open"
    /\ v3_file' = <<>>
    /\ v3_header_written' = FALSE
    /\ v3_pc' = "submit"
    /\ UNCHANGED <<streamVars, linkVars, parseVars, batchVars, api_resp,
                   v3_status, v3_in_flight, v3_completed>>

\* tasks = [fetch_json(session, url) for url in api_urls], all started by
\* asyncio.as_completed(tasks).
V3Submit ==
    /\ v3_pc = "submit"
    /\ v3_in_flight' = ApiUrls
    /\ v3_pc' = "stream"
    /\ UNCHANGED <<streamVars, linkVars, parseVars, batchVars, api_resp,
                   v3_status, v3_file, v3_header_written, v3_completed>>

\* The task of a URL completes, with a result or with an exception.
V3Complete(u) ==
    /\ v3_pc = "stream"
    /\ u \in v3_in_flight
    /\ v3_in_flight' = v3_in_flight \ {u}
    /\ v3_completed' = Append(v3_completed, u)
    /\ UNCHANGED <<streamVars, linkVars, parseVars, batchVars, api_resp,
                   v3_pc, v3_status, v3_file, v3_header_written>>

\* if not header_written: writer.writeheader(); header_written = True
V3WithHeader(content) ==
    IF v3_header_written THEN content ELSE Append(content, Header)

\* One turn of `for future in asyncio.as_completed(tasks)`:
\* result = await future; if result: header once, then the row.
V3Consume ==
    /\ v3_pc = "stream"
    /\ v3_completed # <<>>
    /\ LET u == Head(v3_completed)
           r == fetch_json(api_resp[u])
       IN
       /\ v3_completed' = Tail(v3_completed)
       /\ \/ /\ r.raised
             /\ \E how \in EscapeExits(r.kind) : V3Exit(how)
             /\ UNCHANGED <<v3_file, v3_header_written>>
          \/ /\ ~r.raised
             /\ r.kind = "none" \/ (r.kind = "dict" /\ r.items = 0)
             /\ UNCHANGED <<v3_pc, v3_status, v3_file, v3_header_written>>
          \/ /\ ~r.raised
             /\ r.kind = "dict"
             /\ r.items > 0
             /\ \/ /\ v3_file' = Append(V3WithHeader(v3_file), Row(u, 1))
                   /\ v3_header_written' = TRUE
                   /\ UNCHANGED <<v3_pc, v3_status>>
                \/ \* writeheader or writerow raises IOError
                   /\ v3_file' \in {v3_file, V3WithHeader(v3_file)}
                   /\ v3_header_written' =
                         (v3_header_written \/ v3_file' # v3_file)
                   /\ V3Exit("io_error")
          \/ \* a value that is no dict is truthy: the header is written,
             \* then result.get raises AttributeError
             /\ ~r.raised
             /\ r.kind = "not_a_dict"
             /\ v3_file' = V3WithHeader(v3_file)
             /\ v3_header_written' = TRUE
             /\ V3Exit("crashed")
    /\ UNCHANGED <<streamVars, linkVars, parseVars, batchVars, api_resp,
                   v3_in_flight>>

\* The loop is over: the file is closed and the outcome printed.
V3Finish ==
    /\ v3_pc = "stream"
    /\ v3_in_flight = {}
    /\ v3_completed = <<>>
    /\ V3Exit(IF v3_header_written THEN "finished" ELSE "nothing_fetched")
    /\ UNCHANGED <<streamVars, linkVars, parseVars, batchVars, api_resp,
                   v3_file, v3_header_written, v3_in_flight, v3_completed>>

V3Next ==
    \/ V3OpenFile
    \/ V3Submit
    \/ \E u \in ApiUrls : V3Complete(u)
    \/ V3Consume
    \/ V3Finish

V3Spec == V3Init /\ [][V3Next]_vars

\* ================================================================
\* async_fetch_and_save_v5_total_offset.py: fetch_all_with_total_offset
\* ================================================================
\* total_items = 100
BatchTotal == 100

\* max_results_per_page: 20 is what main() passes; the others give two,
\* one and no further page.
BatchPageSizes == {20, 34, 50, 100}

\* The pages a call with page size p asks for when none fails.
BatchNumPages(p) == 1 + Len(Range(p, BatchTotal, p))

\* What the request for a page meets.  "json_array" is the decoded list of
\* the items of the page; "json_object" is a decoded, non-empty JSON object
\* where the list is expected.
BatchResponses ==
    [net : {"transport_error", "bad_status", "timeout", "invalid_json",
            "json_object"}, items : {0}]
    \cup [net : {"json_array"}, items : 0..MaxBatchItems]

\* fetch_json of the batch script: aiohttp.ClientError is turned into None,
\* a timeout and an undecodable body leave it as exceptions, any decoded
\* JSON value is returned as is.
batch_fetch_json(outcome) ==
    CASE outcome.net \in {"transport_error", "bad_status"} ->
            [raised |-> FALSE, kind |-> "none", items |-> 0]
      [] outcome.net \in {"timeout", "invalid_json"} ->
            [raised |-> TRUE, kind |-> outcome.net, items |-> 0]
      [] outcome.net = "json_object" ->
            [raised |-> FALSE, kind |-> "not_a_list", items |-> 0]
      [] OTHER ->
            [raised |-> FALSE, kind |-> "list", items |-> outcome.items]

\* `if page_items:` / `if not initial_response:`: None and the empty list
\* are falsy.
Truthy(r) == r.kind = "not_a_list" \/ (r.kind = "list" /\ r.items > 0)

\* What a JSON object leaves in a list of items: the object itself when it
\* is taken for the list, its keys when the list is extended by it.
Garbage(page) == [kind |-> "garbage", page |-> page, item |-> 0]

\* A response as a list of items.
AsItems(page, r) ==
    IF r.kind = "list" THEN Rows(page, r.items) ELSE <<Garbage(page)>>

BatchInit ==
    /\ StreamIdle
    /\ LinkIdle
    /\ ParseIdle
    /\ V3Idle
    /\ max_results_per_page \in BatchPageSizes
    /\ batch_resp \in [1..BatchNumPages(max_results_per_page) -> BatchResponses]
    /\ batch_pc = "initial"
    /\ batch_requested = <<>>
    /\ batch_in_flight = {}
    /\ batch_items = <<>>
    /\ batch_result = "none"

\* initial_response = await fetch_json(session, initial_url): the request.
BatchFetchInitial ==
    /\ batch_pc = "initial"
    /\ batch_requested' = <<0>>
    /\ batch_pc' = "initial_wait"
    /\ UNCHANGED <<streamVars, linkVars, parseVars, v3Vars,
                   max_results_per_page, batch_resp, batch_in_flight,
                   batch_items, batch_result>>

\* The answer to the initial request, up to the start of the gather:
\* return [] on a falsy response, all_items = initial_response, the URLs of
\* the other pages, one task for each.
BatchHandleInitial ==
    /\ batch_pc = "initial_wait"
    /\ LET r == batch_fetch_json(batch_resp[1])
           urls == Range(max_results_per_page, BatchTotal,
                         max_results_per_page)
       IN
       \/ /\ r.raised
          /\ batch_result' = "raised"
          /\ batch_pc' = "done"
          /\ UNCHANGED <<batch_requested, batch_in_flight, batch_items>>
       \/ /\ ~r.raised
          /\ ~Truthy(r)
          /\ batch_items' = <<>>
          /\ batch_result' = "returned"
          /\ batch_pc' = "done"
          /\ UNCHANGED <<batch_requested, batch_in_flight>>
       \/ /\ ~r.raised
          /\ Truthy(r)
          /\ batch_items' = AsItems(1, r)
          /\ IF BatchTotal = 0
             THEN /\ batch_result' = "returned"
                  /\ batch_pc' = "done"
                  /\ UNCHANGED <<batch_requested, batch_in_flight>>
             ELSE /\ batch_requested' = batch_requested \o urls
                  /\ batch_in_flight' = {k + 1 : k \in DOMAIN urls}
                  /\ batch_pc' = "gather"
                  /\ UNCHANGED batch_result
    /\ UNCHANGED <<streamVars, linkVars, parseVars, v3Vars,
                   max_results_per_page, batch_resp>>

\* The task of a page completes, with a result or with an exception.
BatchComplete(k) ==
    /\ batch_pc = "gather"
    /\ k \in batch_in_flight
    /\ batch_in_flight' = batch_in_flight \ {k}
    /\ UNCHANGED <<streamVars, linkVars, parseVars, v3Vars,
                   max_results_per_page, batch_resp, batch_pc,
                   batch_requested, batch_items, batch_result>>

\* The pages of the gather.
GatheredPages == 2..Len(batch_resp)

\* asyncio.gather re-raises the first exception of a task.
BatchGatherRaises ==
    /\ batch_pc = "gather"
    /\ \E k \in GatheredPages \ batch_in_flight :
          batch_fetch_json(batch_resp[k]).raised
    /\ batch_result' = "raised"
    /\ batch_pc' = "done"
    /\ UNCHANGED <<streamVars, linkVars, parseVars, v3Vars,
                   max_results_per_page, batch_resp, batch_requested,
                   batch_in_flight, batch_items>>

\* for page_items in remaining_pages: if page_items:
\*     all_items.extend(page_items), from page k on, in the order of the
\* tasks.
RECURSIVE Extended(_, _)
Extended(acc, k) ==
    IF k > Len(batch_resp) THEN acc
    ELSE LET r == batch_fetch_json(batch_resp[k]) IN
         Extended(IF Truthy(r) THEN acc \o AsItems(k, r) ELSE acc, k + 1)

\* remaining_pages = await asyncio.gather(*tasks) has every result; the
\* pages are combined and all_items is returned.  all_items.extend raises
\* AttributeError when the initial response was no list.
BatchCombine ==
    /\ batch_pc = "gather"
    /\ batch_in_flight = {}
    /\ \A k \in GatheredPages : ~batch_fetch_json(batch_resp[k]).raised
    /\ IF /\ batch_fetch_json(batch_resp[1]).kind = "not_a_list"
          /\ \E k \in GatheredPages : Truthy(batch_fetch_json(batch_resp[k]))
       THEN /\ batch_result' = "raised"
            /\ UNCHANGED batch_items
       ELSE /\ batch_result' = "returned"
            /\ batch_items' = Extended(batch_items, 2)
    /\ batch_pc' = "done"
    /\ UNCHANGED <<streamVars, linkVars, parseVars, v3Vars,
                   max_results_per_page, batch_resp, batch_requested,
                   batch_in_flight>>

BatchNext ==
    \/ BatchFetchInitial
    \/ BatchHandleInitial
    \/ \E k \in GatheredPages : BatchComplete(k)
    \/ BatchGatherRaises
    \/ BatchCombine

BatchSpec == BatchInit /\ [][BatchNext]_vars

\* ======================================================== properties
Ceil(a, b) == (a + b - 1) \div b
Min(a, b) == IF a < b THEN a ELSE b
RowsOf(content) == SelectSeq(content, LAMBDA l : l.kind = "row")
HeadersOf(content) == SelectSeq(content, LAMBDA l : l.kind = "header")
SeqToBag(s) ==
    [x \in {s[i] : i \in DOMAIN s} |->
        Cardinality({i \in DOMAIN s : s[i] = x})]
Terminal == pc = "exited"
\* main() got past the computation of urls_to_fetch.
UrlsComputed ==
    \/ pc \in {"fanout", "stream"}
    \/ status \in {"all_on_first_page", "finished"}

\* C1: for a page size p > 0 and a total t >= 0 the offsets generated after
\* page 0 are ceil(t/p) - 1 many when t > 0, none when t = 0, and they are
\* exactly the multiples p, 2p, ... of p below t, each once.
C1_OffsetRequests ==
    (UrlsComputed /\ page_size > 0) =>
        /\ Len(urls_to_fetch) =
              IF total_items = 0 THEN 0
              ELSE Ceil(total_items, page_size) - 1
        /\ {urls_to_fetch[i] : i \in DOMAIN urls_to_fetch} =
              {m \in {j * page_size : j \in 1..total_items} : m < total_items}
        /\ \A i, j \in DOMAIN urls_to_fetch :
              urls_to_fetch[i] = urls_to_fetch[j] => i = j

\* C1 witness: two further pages were generated, for a total that is no
\* multiple of the page size.
C1_Witness ==
    /\ pc = "stream"
    /\ page_size = 2
    /\ total_items = 5
    /\ urls_to_fetch = <<2, 4>>

\* C2: whenever the file holds a row, it holds the header exactly once, as
\* its first line.
C2_HeaderBeforeRows ==
    RowsOf(file_content) # <<>> =>
        /\ file_content[1] = Header
        /\ Len(HeadersOf(file_content)) = 1

\* The rows a run writes when the fanned-out pages complete in submission
\* order and no write fails: page k and the pages after it.
RECURSIVE RowsInSubmissionOrder(_)
RowsInSubmissionOrder(k) ==
    IF k > Len(urls_to_fetch) + 1 THEN <<>>
    ELSE LET r == fetch_json(resp[k]) IN
         IF r.raised \/ r.kind = "not_a_dict" THEN <<>>
         ELSE Rows(k, r.items) \o RowsInSubmissionOrder(k + 1)

\* The rows of page 0 and of every later page that carried items.
RowsOfSuccessfulPages ==
    UNION {{Row(k, j) : j \in 1..resp[k].items} : k \in DOMAIN resp}

\* C3: a run that fanned out and ended, without an interrupt or a failed
\* write, holds the multiset of rows of the run in which the same responses
\* complete in submission order, whatever order they completed in.
C3_CompletionOrderIndependent ==
    (Terminal /\ page_size > 0 /\ urls_to_fetch # <<>>
        /\ status \notin {"interrupted", "io_error"}) =>
        SeqToBag(RowsOf(file_content)) = SeqToBag(RowsInSubmissionOrder(1))

\* C4: a run that fanned out and ended, without an interrupt or a failed
\* write, finished normally, consumed every page and holds exactly the
\* rows of page 0 and of the pages that succeeded, whichever pages failed.
C4_FailedPagesSkipped ==
    (Terminal /\ page_size > 0 /\ urls_to_fetch # <<>>
        /\ status \notin {"interrupted", "io_error"}) =>
        /\ status = "finished"
        /\ Len(requested) = Len(urls_to_fetch) + 1
        /\ SeqToBag(RowsOf(file_content)) =
              SetToBag(RowsOfSuccessfulPages)

\* C5: every request that ended in something other than a JSON object left
\* fetch_json as the value None, not as an exception or another value.
C5_FetchJsonNeverRaises ==
    \A i \in DOMAIN completed :
        LET k == completed[i] IN
        (page_size > 0 /\ resp[k].net # "json_object") =>
            /\ ~fetch_json(resp[k]).raised
            /\ fetch_json(resp[k]).kind = "none"

\* C6: no request has been sent while the page size is zero or negative.
C6_NoRequestOnBadPageSize ==
    ~(page_size <= 0 /\ requested # <<>>)

\* C8: a run whose first page failed ends with an exit status different
\* from that of a successful run.
C8_InitialFailureExitStatus ==
    (Terminal /\ page_size > 0 /\ status = "initial_failed") =>
        ExitCode(status) # ExitCode("finished")

\* The server holds srv_total items and answers the request for each
\* offset with the items from that offset on, at most page_size of them.
ServerConforms ==
    /\ page_size > 0
    /\ has_total
    /\ srv_total > 0
    /\ \A k \in DOMAIN resp :
          resp[k] = [net |-> "json_object",
                     items |-> Min(page_size, srv_total - (k - 1) * page_size)]

\* C7: against a server that answers every offset with its items, a run
\* that ends without an interrupt or a failed write has sent exactly the
\* ceil(t/p) requests for the offsets 0, p, 2p, ..., has written t rows,
\* and has written the header once, as the first line.
C7_EndToEnd ==
    (ServerConforms /\ Terminal /\ status \notin {"interrupted", "io_error"}) =>
        /\ status \in {"finished", "all_on_first_page"}
        /\ requested =
              [k \in 1..Ceil(srv_total, page_size) |-> (k - 1) * page_size]
        /\ Len(RowsOf(file_content)) = srv_total
        /\ SeqToBag(RowsOf(file_content)) = SetToBag(RowsOfSuccessfulPages)
        /\ Len(file_content) = srv_total + 1
        /\ file_content[1] = Header
        /\ Len(HeadersOf(file_content)) = 1

\* C7 witness: the run for a total of 5 and a page size of 2 finished after
\* the three requests for the offsets 0, 2 and 4.
C7_Witness ==
    /\ ServerConforms
    /\ status = "finished"
    /\ page_size = 2
    /\ srv_total = 5
    /\ requested = <<0, 2, 4>>
    /\ Len(RowsOf(file_content)) = 5

\* C9: once an interrupt was delivered no further request is sent, the
\* lines of the file stay as they are, and the file ends up closed.
C9_InterruptStopsRun ==
    /\ [][interrupted => requested' = requested]_vars
    /\ [][interrupted => file_content' = file_content]_vars
    /\ [](interrupted => <>(~file_open))

\* C9 witness: an interrupted run has ended with rows in the file and with
\* pages it never asked for.
C9_Witness ==
    /\ status = "interrupted"
    /\ ~file_open
    /\ RowsOf(file_content) # <<>>
    /\ Len(requested) >= 2
    /\ Len(requested) < Len(urls_to_fetch) + 1

\* C10: every run ends, and a run that has ended has no open file, however
\* it ended.
C10_EndsWithFileClosed ==
    /\ <>Terminal
    /\ [](Terminal => ~file_open)

\* C10 witness: a run ended by a failed write in the middle of the
\* streaming loop, with the file closed.
C10_Witness ==
    /\ Terminal
    /\ status = "io_error"
    /\ ~file_open
    /\ Len(requested) >= 2
    /\ RowsOf(file_content) # <<>>

\* ------------------------------------------- sink, ordering and fan-out
IsPrefix(a, b) == Len(a) <= Len(b) /\ SubSeq(b, 1, Len(a)) = a
\* The lines a step appends to the file.
AppendedLines ==
    IF IsPrefix(file_content, file_content')
    THEN SubSeq(file_content', Len(file_content) + 1, Len(file_content'))
    ELSE <<>>
\* The rows of each page lie next to each other in the file.
PagesContiguous ==
    LET rows == RowsOf(file_content) IN
    \A i, j, k \in DOMAIN rows :
        (i < j /\ j < k /\ rows[i].page = rows[k].page) =>
            rows[j].page = rows[i].page

\* C12: the file changes only in a step of main(), never in the step that
\* ends a fetch task; one step appends the rows of at most one page, and the
\* rows of a page are never split by the rows of another page.
C12_SinkSerialized ==
    /\ [][Len(completed') > Len(completed) =>
              file_content' = file_content]_vars
    /\ [][file_content' # file_content =>
              /\ pc \in {"open", "await_initial", "stream"}
              /\ \A i, j \in DOMAIN RowsOf(AppendedLines) :
                    RowsOf(AppendedLines)[i].page =
                        RowsOf(AppendedLines)[j].page]_vars
    /\ []PagesContiguous

\* C12 witness: the file holds the rows of two fanned-out pages, one of
\* them with more than one row.
C12_Witness ==
    LET rows == RowsOf(file_content) IN
    /\ Len(rows) >= 3
    /\ \E i, j \in DOMAIN rows : rows[i].page = 2 /\ rows[j].page = 3

\* C13: a run whose initial response reports a total of 0 ends normally
\* after the one request for page 0, with no header and no row in the file.
C13_ZeroTotalEmptyResult ==
    (Terminal /\ page_size > 0 /\ has_total /\ srv_total = 0
        /\ resp[1].net = "json_object"
        /\ status \notin {"interrupted", "io_error"}) =>
        /\ status = "all_on_first_page"
        /\ requested = <<0>>
        /\ file_content = <<>>

\* C15: the streaming loop writes the pages in the order in which their
\* fetches ended: the queue of ended fetches only grows at its end, a step
\* of the loop appends rows of the page at its head only, and no row of a
\* fanned-out page precedes a row of page 0.
C15_CompletionOrder ==
    /\ [][Len(completed') > Len(completed) =>
              SubSeq(completed', 1, Len(completed)) = completed]_vars
    /\ [][(pc = "stream" /\ file_content' # file_content) =>
              /\ completed # <<>>
              /\ IsPrefix(file_content, file_content')
              /\ \A i \in DOMAIN AppendedLines :
                    /\ AppendedLines[i].kind = "row"
                    /\ AppendedLines[i].page = Head(completed)]_vars
    /\ [](\A i, j \in DOMAIN file_content :
              (i < j /\ file_content[j].page <= 1) =>
                  file_content[i].page <= 1)

\* C15 witness: the rows of the page submitted last are in the file before
\* the rows of the page submitted before it.
C15_Witness ==
    \E i, j \in DOMAIN file_content :
        /\ i < j
        /\ file_content[i].page = 3
        /\ file_content[j].page = 2

\* C16: a run whose initial response carries no total ends in a failure,
\* not the way a run with a known total ends.
C16_MissingTotalIsFatal ==
    (Terminal /\ page_size > 0 /\ ~has_total
        /\ resp[1].net = "json_object"
        /\ status \notin {"interrupted", "io_error"}) =>
        /\ status \notin {"finished", "all_on_first_page"}
        /\ ExitCode(status) # 0

\* C17: the step in which a write fails keeps what the file held and ends
\* the run with the file closed; after it no line is written, no page is
\* consumed and no request is sent.
C17_SinkFailureAborts ==
    /\ [][(status = "running" /\ status' = "io_error") =>
              IsPrefix(file_content, file_content')]_vars
    /\ [][status = "io_error" =>
              /\ file_content' = file_content
              /\ completed' = completed
              /\ requested' = requested]_vars
    /\ [](status = "io_error" => (Terminal /\ ~file_open))

\* C17 witness: a write failed in the streaming loop after rows were
\* written, with a page that had ended still waiting to be consumed.
C17_Witness ==
    /\ status = "io_error"
    /\ Len(requested) >= 2
    /\ RowsOf(file_content) # <<>>
    /\ completed # <<>>

C20_NoConcurrencyCap ==
    /\ [][(pc \in {"fanout", "stream"} /\ Len(completed') < Len(completed)) =>
              /\ Len(requested) = Len(urls_to_fetch) + 1
              /\ requested' = requested]_vars
    /\ [][Len(completed') > Len(completed) =>
              requested' = requested]_vars

\* C20 witness: all remaining pages are in flight at the same time, none
\* of them ended.
C20_Witness ==
    /\ pc = "stream"
    /\ Len(urls_to_fetch) = 2
    /\ in_flight = {2, 3}
    /\ completed = <<>>

\* ------------------------------------------------------ link-following
\* The page of URL u is a JSON object with a 'next' reference.
HasNext(u) ==
    /\ ~fetch_json(link_pages[u]).raised
    /\ fetch_json(link_pages[u]).kind = "dict"
    /\ link_pages[u].next # 0
\* The URLs on the chain that starts at u, up to its first page that
\* fails or has no 'next' reference, and at most n of them.
RECURSIVE ChainWalk(_, _)
ChainWalk(u, n) ==
    IF n = 0 THEN <<>>
    ELSE IF HasNext(u) THEN <<u>> \o ChainWalk(link_pages[u].next, n - 1)
    ELSE <<u>>
\* The items of the pages of a walk, in the order of the walk; a page that
\* is no JSON object has none.
RECURSIVE ItemsAlong(_)
ItemsAlong(walk) ==
    IF walk = <<>> THEN <<>>
    ELSE Rows(Head(walk), link_pages[Head(walk)].items) \o ItemsAlong(Tail(walk))
\* The chain from the initial URL of c reaches its stopping page within the
\* requests a chain is followed for.
ChainStops(c) ==
    LET walk == ChainWalk(c, MaxRequests) IN ~HasNext(walk[Len(walk)])

\* C11: a call of fetch_all_pages that has ended has returned; it asked for
\* the pages of its chain up to the first that failed or had no next
\* reference, each once and in order, and it returned their items in that
\* order.
C11_LinkFollowing ==
    \A c \in Chains :
        chain_pc[c] \in {"returned", "raised"} =>
            /\ chain_pc[c] = "returned"
            /\ chain_requests[c] = ChainWalk(c, MaxRequests)
            /\ all_items[c] = ItemsAlong(ChainWalk(c, MaxRequests))

\* C19: when the gather of the chains is over, every chain whose own pages
\* let it return has handed main() the list it returns when run alone, at
\* its own position, whatever happened to the other chains.
C19_ChainsIndependent ==
    link_main \in {"write", "done", "crashed"} =>
        \A c \in Chains :
            ChainStops(c)
                /\ link_pages[ChainWalk(c, MaxRequests)[
                       Len(ChainWalk(c, MaxRequests))]].net
                       \in {"json_object", "transport_error", "bad_status"}
            =>  /\ link_main # "crashed"
                /\ results_by_url[c] = ItemsAlong(ChainWalk(c, MaxRequests))

\* ------------------------------------------------------- get_item_data
\* The source key of each output field.
FieldSource ==
    [f \in fields_to_extract |->
        CASE f = "product_id" -> "id"
          [] f = "product_name" -> "title"
          [] f = "brand_name" -> "brand"
          [] f = "category" -> "category"
          [] f = "price_usd" -> "price"
          [] f = "customer_rating" -> "rating"]

\* C14: every call of get_item_data, on whatever keys the item has and
\* whenever it is made, returned a mapping with exactly the six output
\* fields, each holding the value of its source key, or null when the item
\* lacks the key; two calls on the same item returned the same mapping.
C14_GetItemDataTotal ==
    \A n \in DOMAIN parsed :
        LET item == raw_items[parsed[n].slot]
            out == parsed[n].out
        IN
        /\ DOMAIN out = fields_to_extract
        /\ \A f \in fields_to_extract :
              out[f] = IF item[FieldSource[f]] = Absent THEN Null
                       ELSE item[FieldSource[f]]
        /\ \A m \in DOMAIN parsed :
              parsed[m].slot = parsed[n].slot => parsed[m].out = out

\* C14 witness: an item with the brand but without the category, and an
\* item with no key at all, were each parsed twice, the calls interleaved.
C14_Witness ==
    /\ Len(parsed) = 4
    /\ parsed[1].slot = 1 /\ parsed[2].slot = 2
    /\ parsed[3].slot = 1 /\ parsed[4].slot = 2
    /\ raw_items[1]["brand"] # Absent
    /\ raw_items[1]["category"] = Absent
    /\ \A k \in SourceKeys : raw_items[2][k] = Absent

\* ------------------------------------------------- per-URL streaming (v3)
\* The fetch of URL u completed with a non-empty JSON object.
V3Succeeded(u) ==
    /\ u \notin v3_in_flight
    /\ api_resp[u].net = "json_object"
    /\ api_resp[u].items > 0
\* The fetch of URL u failed, or was cancelled before it completed.
V3Failed(u) ==
    \/ u \in v3_in_flight
    \/ api_resp[u].net \in {"transport_error", "bad_status", "timeout",
                            "invalid_json"}

\* C21: the file of the per-URL run never holds two headers and holds no
\* row before the header; once the run is over without a failed write, the
\* file holds exactly one header if the fetch of some URL completed with a
\* non-empty object, and no header if every fetch failed.
C21_HeaderOnce ==
    v3_pc \in {"stream", "exited"} =>
        /\ Len(HeadersOf(v3_file)) <= 1
        /\ RowsOf(v3_file) # <<>> => v3_file[1] = Header
        /\ (v3_pc = "exited" /\ v3_status # "io_error") =>
              /\ (\E u \in ApiUrls : V3Succeeded(u)) =>
                    Len(HeadersOf(v3_file)) = 1
              /\ (\A u \in ApiUrls : V3Failed(u)) =>
                    Len(HeadersOf(v3_file)) = 0

\* ------------------------------------------- link-following termination
\* C22: when every fetch completes, a call of fetch_all_pages whose chain
\* of next references reaches a page that fails or has no next reference
\* eventually returns, having asked for each page of the chain once; and a
\* call returns in no other case.
C22_LinkTermination ==
    \A c \in Chains :
        /\ [](chain_pc[c] = "returned" =>
                /\ ChainStops(c)
                /\ chain_requests[c] = ChainWalk(c, MaxRequests))
        /\ (link_main = "gather" /\ ChainStops(c)) ~>
              (/\ chain_pc[c] = "returned"
               /\ chain_requests[c] = ChainWalk(c, MaxRequests))

\* ------------------------------------------------ batch total/offset (v5)
\* The fetch of page k failed.
BatchFailed(k) ==
    batch_resp[k].net \in {"transport_error", "bad_status", "timeout",
                           "invalid_json"}
\* The items of the successful pages from page k on, in ascending offset
\* order.
RECURSIVE ItemsInOffsetOrder(_)
ItemsInOffsetOrder(k) ==
    IF k > Len(batch_resp) THEN <<>>
    ELSE (IF BatchFailed(k) THEN <<>>
          ELSE Rows(k, batch_resp[k].items)) \o ItemsInOffsetOrder(k + 1)

\* C23: a call of fetch_all_with_total_offset that has ended has returned a
\* list: the empty list, after the initial request alone, when the fetch of
\* page 0 failed; otherwise the items of page 0 followed by the items of
\* every other page whose fetch succeeded, in ascending offset order,
\* whatever the order the fetches completed in.
C23_BatchOffsetOrder ==
    batch_pc = "done" =>
        /\ batch_result = "returned"
        /\ IF BatchFailed(1)
           THEN batch_items = <<>> /\ batch_requested = <<0>>
           ELSE batch_items = ItemsInOffsetOrder(1)

====
